---- MODULE Spec2Model ----
(***************************************************************************)
(* Model of drivers/misc/axi_fpga.c: the per-device state of struct        *)
(* axi_fpga_drvdata and the file operations open, poll, read, ioctl, mmap  *)
(* and release, together with the interrupt handler.                       *)
(*                                                                         *)
(* The handlers are the operations.  They are called by kernel threads     *)
(* (Threads); a handler that reads or writes the shared fields at more     *)
(* than one source line is one action per shared access, so that the       *)
(* interleavings the C code admits are the interleavings of the model.     *)
(* ioctl and mmap touch no mutable field of the device more than once and  *)
(* are one action each.                                                    *)
(***************************************************************************)
EXTENDS Integers, Sequences, FiniteSets, TLC

(* ----------------------------- bounds --------------------------------- *)

\* Saturation point of the ghost counter of successful opens since the
\* line was last freed.
MaxOpens == 2

\* Saturation point of the ghost counter of triggers since the last clear.
MaxTrig == 2

(* ------------------------- program constants -------------------------- *)

EIO == 5
EFAULT == 14
EBUSY == 16
EINVAL == 22
ENOTTY == 25
ERESTARTSYS == 512

POLLIN == 1
POLLRDNORM == 64

PAGE_SHIFT == 12
PAGE_SIZE == 4096

RECURSIVE Pow2(_)
\* 1 << n
Pow2(n) == IF n = 0 THEN 1 ELSE 2 * Pow2(n - 1)

\* PAGE_ALIGN(size) >> PAGE_SHIFT : pages covered by size bytes
PagesOf(size) == (size + PAGE_SIZE - 1) \div PAGE_SIZE

(* -------------- geometry fixed by axi_fpga_drv_probe ------------------ *)

\* d->dev_physaddr = control->start
dev_physaddr == 1048576
\* d->dev_size = control->end - control->start + 1
dev_size == 4096
\* d->fpga_buffer_npages = buffer->end + 1 : the order of the allocation
fpga_buffer_npages == 2
\* page_to_pfn(d->fpga_buffer_pages) : first frame of the contiguous buffer
fpga_buffer_pfn == 512

(* --------------------------- environment ------------------------------ *)

Threads == {"t1", "t2"}

\* The thread of the single consumer the design supports.
Consumer == "t1"

\* The threads that issue ioctl and mmap calls.  Neither call reads or
\* writes a mutable field of the device except the one read of dev_open in
\* mmap, so a second caller adds no interleaving.
DataCallers == {Consumer}

\* User virtual addresses handed to AXI_FPGA_GET_PAGE and the frame behind
\* the resident one; UnmappedVa has nothing behind it.
MappedVa == 32 * PAGE_SIZE
UnmappedVa == 48 * PAGE_SIZE
UserVas == {MappedVa, UnmappedVa}
UserPfn == 700

\* Frames an uninitialised struct page pointer may happen to designate.
GarbagePfns == {UserPfn, 900}

\* Values an uninitialised struct page pointer may hold that are no struct
\* page at all, written as the frame number page_to_pfn makes of them:
\* 0 for NULL, -1 for an address inside the thread's own stack.
WildPages == {0, -1}

\* Values of the fields of struct buffer_addr supplied by the caller.
Directions == {0, 1, 2}
XferSizes == {PAGE_SIZE}
PhysAddrs == {UserPfn * PAGE_SIZE}

Cmds == {"AXI_FPGA_GET_PAGE", "AXI_FPGA_GIVE_PAGE", "AXI_FPGA_TAKE_PAGE", "OTHER"}

\* vma geometry the mm layer may hand to mmap.
VmStarts == {16 * PAGE_SIZE, 64 * PAGE_SIZE}
VmPgoffs == {0, 1}

VARIABLES
  dev_open,      \* d->dev_open
  irq_happened,  \* d->irq_happened (atomic_t)
  irq_held,      \* the handler is registered on d->irq_number with dev_id d
  irq_pc,        \* position of the interrupt handler: "idle" or "wake"
  wq,            \* d->wait : the entries on the wait queue, <<"wait", t>>
                 \* put there by wait_event_interruptible in thread t and
                 \* <<"poll", t>> linked there through t's poll table
  pc,            \* position of each thread inside a handler, "idle" outside
  tstate,        \* task state of each thread: "RUN" or "INT"
  sigpending,    \* signal_pending(thread)
  wret,          \* __ret / __int of wait_event_interruptible in each thread
  last,          \* per thread: the handler called last, its return value and
                 \* the source line of the return statement (0 while running)
  req,           \* the call entered by the step just taken: <<handler, thread>>,
                 \* for ioctl and mmap <<handler, arguments>>; <<>> for a step
                 \* inside a handler or of the environment
  fx,            \* platform calls made by the step just taken
  trig,          \* ghost: triggers since the flag was last cleared (saturating)
  batch,         \* ghost: triggers consumed by the last read that returned
                 \* after finding the flag set, 0 again at the next trigger
  opens,         \* ghost: open() calls that returned 0 since the line was
                 \* last freed by release() (saturating)
  late,          \* ghost: the handler has set the flag while a read stood
                 \* between its test of the flag (line 137) and its store
                 \* (line 138), and no read has returned since
  stage          \* ghost: how far the run so far has followed the session
                 \* scenario of ScenarioStep step by step; -1 once it has
                 \* left it

vars == <<dev_open, irq_happened, irq_held, irq_pc, wq, pc, tstate,
          sigpending, wret, last, req, fx, trig, batch, opens, late, stage>>

dev == <<dev_open, irq_happened, irq_held>>
waitv == <<wq, tstate, sigpending, wret>>
ghost == <<trig, batch, opens, late>>

Min(a, b) == IF a < b THEN a ELSE b

Ret(o, r, s) == [op |-> o, ret |-> r, site |-> s]

\* The calls of one whole session of the consumer, in order, with the
\* environment's part: k is the number of steps already taken.
\*   0-2   open(), the interrupt line can be had
\*   3     mmap() with offset 0 and length dev_size + 4 pages,
\*         remap_pfn_range does not fail
\*   4     ioctl(AXI_FPGA_GET_PAGE) on a resident address, one page,
\*         direction non-zero
\*   5-6   one interrupt
\*   7-8   read(), up to its return
\*   9-12  release()
\*   13    read()
ScenarioStep(k) ==
  CASE k = 0 -> req' = <<"open", Consumer>>
    [] k = 1 -> pc[Consumer] = "open_set" /\ pc'[Consumer] # "open_set"
    [] k = 2 -> /\ pc[Consumer] = "open_irq"
                /\ pc'[Consumer] # "open_irq"
                /\ fx' = << <<"request_irq", TRUE>> >>
    [] k = 3 -> /\ req' # <<>>
                /\ req'[1] = "mmap"
                /\ req'[3] = 0
                /\ req'[4] = dev_size + 4 * PAGE_SIZE
                /\ last'[Consumer].site \notin {239, 246}
    [] k = 4 -> /\ req' # <<>>
                /\ req'[1] = "ioctl"
                /\ req'[2] = "AXI_FPGA_GET_PAGE"
                /\ req'[3] = MappedVa
                /\ req'[5] = PAGE_SIZE
                /\ req'[6] # 0
    [] k = 5 -> irq_pc = "idle" /\ irq_pc' = "wake"
    [] k = 6 -> irq_pc = "wake" /\ irq_pc' = "idle"
    [] k = 7 -> req' = <<"read", Consumer>>
    [] k = 8 -> /\ pc[Consumer] \in {"read_cond", "read_prep", "read_test",
                                    "read_sched", "read_clear"}
                /\ pc'[Consumer] # pc[Consumer]
    [] k = 9 -> req' = <<"release", Consumer>>
    [] k = 10 -> pc[Consumer] = "rel_free" /\ pc'[Consumer] # "rel_free"
    [] k = 11 -> pc[Consumer] = "rel_sync" /\ pc'[Consumer] # "rel_sync"
    [] k = 12 -> pc[Consumer] = "rel_clear" /\ pc'[Consumer] # "rel_clear"
    [] k = 13 -> req' = <<"read", Consumer>>
    [] OTHER -> FALSE

\* The value of stage after a step: one more when the step is the next one
\* of the scenario (the steps inside the read of step 8 count as one), -1
\* for any other step.
StageAfter ==
  IF stage >= 0 /\ ScenarioStep(stage)
    THEN IF stage = 8 /\ pc'[Consumer] # "idle" THEN stage ELSE stage + 1
    ELSE -1

\* devm_kzalloc, atomic_set(&d->irq_happened, 0), init_waitqueue_head,
\* d->dev_open = 0
Init ==
  /\ dev_open = 0
  /\ irq_happened = 0
  /\ irq_held = FALSE
  /\ irq_pc = "idle"
  /\ wq = {}
  /\ pc = [t \in Threads |-> "idle"]
  /\ tstate = [t \in Threads |-> "RUN"]
  /\ sigpending = [t \in Threads |-> FALSE]
  /\ wret = [t \in Threads |-> 0]
  /\ last = [t \in Threads |-> Ret("none", 0, 0)]
  /\ req = <<>>
  /\ fx = <<>>
  /\ trig = 0
  /\ batch = 0
  /\ opens = 0
  /\ late = FALSE
  /\ stage = 0

(* ------------------------ interrupt handler --------------------------- *)

\* atomic_set(&d->irq_happened, 1).  The line raises an interrupt whenever
\* the handler is registered; the same line is never handled re-entrantly.
axi_fpga_irq_handler_set ==
  /\ irq_held
  /\ irq_pc = "idle"
  /\ irq_happened' = 1
  /\ irq_pc' = "wake"
  /\ trig' = Min(trig + 1, MaxTrig)
  /\ batch' = 0
  /\ late' = (late \/ \E t \in Threads : pc[t] = "read_clear" /\ wret[t] = 0)
  /\ req' = <<>>
  /\ fx' = <<>>
  /\ UNCHANGED <<dev_open, irq_held, waitv, pc, last, opens>>
  /\ stage' = StageAfter

\* The two kinds of entry on d->wait.
WaitEntry(t) == <<"wait", t>>
PollEntry(t) == <<"poll", t>>

\* Thread t is inside a select or poll system call that has linked its
\* entry into d->wait: until the call takes the entry off again the thread
\* enters no handler but axi_fpga_poll.  (An entry of epoll, which outlives
\* the system call, is not modelled.)
InPoll(t) == PollEntry(t) \in wq

WakeNone(q, ts) == {}

\* wake_up_interruptible: the tasks queued by wait_event_interruptible
\* that are in TASK_INTERRUPTIBLE are made runnable and
\* autoremove_wake_function takes them off the queue.
WakeTargets(q, ts) == {t \in Threads : WaitEntry(t) \in q /\ ts[t] = "INT"}

\* wake_up_interruptible also runs the callback of every poll-table entry
\* on the queue (it wakes the poller where it sleeps outside the driver);
\* those entries stay on the queue.
PollWakeFx(q) ==
  LET P == {t \in Threads : PollEntry(t) \in q} IN
    IF P = {} THEN <<>> ELSE << <<"pollwake", P>> >>

\* line 79
axi_fpga_irq_handler_wake ==
  /\ irq_pc = "wake"
  /\ LET W == WakeTargets(wq, tstate) IN
       /\ tstate' = [t \in Threads |-> IF t \in W THEN "RUN" ELSE tstate[t]]
       /\ wq' = wq \ {WaitEntry(t) : t \in W}
  /\ irq_pc' = "idle"
  /\ req' = <<>>
  /\ fx' = PollWakeFx(wq)
  /\ UNCHANGED <<dev, pc, sigpending, wret, last, ghost>>
  /\ stage' = StageAfter

(* ------------------------------ open ---------------------------------- *)

OpenBusyNever(v) == FALSE

\* if (d->dev_open)
OpenBusy(v) == v # 0

\* line 94: the read of d->dev_open
axi_fpga_open_check(t) ==
  /\ pc[t] = "idle"
  /\ ~InPoll(t)
  /\ IF OpenBusy(dev_open)
       THEN /\ last' = [last EXCEPT ![t] = Ret("open", -EBUSY, 95)]
            /\ pc' = pc
       ELSE /\ last' = [last EXCEPT ![t] = Ret("open", 0, 0)]
            /\ pc' = [pc EXCEPT ![t] = "open_set"]
  /\ req' = <<"open", t>>
  /\ fx' = <<>>
  /\ UNCHANGED <<dev, irq_pc, waitv, ghost>>
  /\ stage' = StageAfter

\* line 97 with a reset of the flag at the start of the session
axi_fpga_open_reset(t) ==
  /\ pc[t] = "open_set"
  /\ dev_open' = 1
  /\ irq_happened' = 0
  /\ pc' = [pc EXCEPT ![t] = "open_irq"]
  /\ req' = <<>>
  /\ fx' = <<>>
  /\ UNCHANGED <<irq_held, irq_pc, waitv, last, ghost>>
  /\ stage' = StageAfter

\* line 97: d->dev_open = 1
axi_fpga_open_set(t) ==
  /\ pc[t] = "open_set"
  /\ dev_open' = 1
  /\ pc' = [pc EXCEPT ![t] = "open_irq"]
  /\ req' = <<>>
  /\ fx' = <<>>
  /\ UNCHANGED <<irq_happened, irq_held, irq_pc, waitv, last, ghost>>
  /\ stage' = StageAfter

\* request_irq as it would answer with IRQF_SHARED
request_irq_shared(avail, held) == avail

\* request_irq(irq, handler, 0, name, d): without IRQF_SHARED it fails
\* when the line already has a handler; avail tells whether the line can
\* be had at all (no other owner, memory for the action).
request_irq_ok(avail, held) == avail /\ ~held

\* lines 99-102
axi_fpga_open_irq(t) ==
  /\ pc[t] = "open_irq"
  /\ \E avail \in BOOLEAN :
       /\ IF request_irq_ok(avail, irq_held)
            THEN /\ irq_held' = TRUE
                 /\ last' = [last EXCEPT ![t] = Ret("open", 0, 102)]
                 /\ opens' = Min(opens + 1, MaxOpens)
            ELSE /\ irq_held' = irq_held
                 /\ last' = [last EXCEPT ![t] = Ret("open", -EBUSY, 100)]
                 /\ opens' = opens
       /\ fx' = << <<"request_irq", avail>> >>
  /\ pc' = [pc EXCEPT ![t] = "idle"]
  /\ req' = <<>>
  /\ UNCHANGED <<dev_open, irq_happened, irq_pc, waitv, trig, batch, late>>
  /\ stage' = StageAfter

(* ----------------------------- release -------------------------------- *)

\* line 265: the read of d->dev_open
axi_fpga_release_check(t) ==
  /\ pc[t] = "idle"
  /\ ~InPoll(t)
  /\ IF dev_open = 0
       THEN /\ last' = [last EXCEPT ![t] = Ret("release", -EIO, 266)]
            /\ pc' = pc
       ELSE /\ last' = [last EXCEPT ![t] = Ret("release", 0, 0)]
            /\ pc' = [pc EXCEPT ![t] = "rel_free"]
  /\ req' = <<"release", t>>
  /\ fx' = <<>>
  /\ UNCHANGED <<dev, irq_pc, waitv, ghost>>
  /\ stage' = StageAfter

FreeIrqKeeps(held) == held

\* free_irq(d->irq_number, d), first half: the action registered with
\* dev_id d is taken off the line (a line that is not held only draws a
\* warning).
free_irq(held) == FALSE

\* line 268, first half.  free_irq unregisters the handler at once, whether
\* or not an instance of it is running, and then waits for it; when it
\* finds no handler registered it warns and returns without waiting.
axi_fpga_release_free(t) ==
  /\ pc[t] = "rel_free"
  /\ irq_held' = free_irq(irq_held)
  /\ pc' = [pc EXCEPT ![t] = IF irq_held THEN "rel_sync" ELSE "rel_clear"]
  /\ req' = <<>>
  /\ fx' = <<<<"free_irq">>>>
  /\ opens' = 0
  /\ UNCHANGED <<dev_open, irq_happened, irq_pc, waitv, last, trig, batch, late>>
  /\ stage' = StageAfter

\* line 268, second half.  free_irq then waits until no instance of the
\* handler runs and returns; the line is free all the while.
axi_fpga_release_sync(t) ==
  /\ pc[t] = "rel_sync"
  /\ irq_pc = "idle"
  /\ pc' = [pc EXCEPT ![t] = "rel_clear"]
  /\ req' = <<>>
  /\ fx' = <<>>
  /\ UNCHANGED <<dev, irq_pc, waitv, last, ghost>>
  /\ stage' = StageAfter

\* lines 270-272 without the store to dev_open
axi_fpga_release_stay(t) ==
  /\ pc[t] = "rel_clear"
  /\ dev_open' = dev_open
  /\ last' = [last EXCEPT ![t] = Ret("release", 0, 272)]
  /\ pc' = [pc EXCEPT ![t] = "idle"]
  /\ req' = <<>>
  /\ fx' = <<>>
  /\ UNCHANGED <<irq_happened, irq_held, irq_pc, waitv, ghost>>
  /\ stage' = StageAfter

\* lines 270-272: d->dev_open = 0; return 0
axi_fpga_release_clear(t) ==
  /\ pc[t] = "rel_clear"
  /\ dev_open' = 0
  /\ last' = [last EXCEPT ![t] = Ret("release", 0, 272)]
  /\ pc' = [pc EXCEPT ![t] = "idle"]
  /\ req' = <<>>
  /\ fx' = <<>>
  /\ UNCHANGED <<irq_happened, irq_held, irq_pc, waitv, ghost>>
  /\ stage' = StageAfter

(* ------------------------------ poll ---------------------------------- *)

\* line 111: the read of d->dev_open.  The unsigned int result of the
\* early return holds the bit pattern of -EIO, kept here as that int.
axi_fpga_poll_check(t) ==
  /\ pc[t] = "idle"
  /\ IF dev_open = 0
       THEN /\ last' = [last EXCEPT ![t] = Ret("poll", -EIO, 112)]
            /\ pc' = pc
       ELSE /\ last' = [last EXCEPT ![t] = Ret("poll", 0, 0)]
            /\ pc' = [pc EXCEPT ![t] = "poll_wait"]
  /\ req' = <<"poll", t>>
  /\ fx' = <<>>
  /\ UNCHANGED <<dev, irq_pc, waitv, ghost>>
  /\ stage' = StageAfter

PollMaskInverted(flag) == IF flag = 1 THEN 0 ELSE POLLIN + POLLRDNORM

\* lines 109, 116-117: mask = 0; if (atomic_read(..) == 1) mask |= POLLIN | POLLRDNORM
PollMask(flag) == IF flag = 1 THEN POLLIN + POLLRDNORM ELSE 0

\* The poll table handed to axi_fpga_poll: with a queueing callback (the
\* first pass of select or poll, epoll_ctl add) or without one (a later
\* pass; no table at all).  A poller whose entry is linked already passes
\* no callback again.
PollQueues(t, q) == IF PollEntry(t) \in q THEN {FALSE} ELSE BOOLEAN

\* line 114: poll_wait(filp, &d->wait, wait) hands d->wait to the callback
\* of the table, which links an entry for the poller into it.
poll_wait(t, q, queue) == IF queue THEN q \cup {PollEntry(t)} ELSE q

\* line 114: poll_wait, under the lock of d->wait
axi_fpga_poll_wait(t) ==
  /\ pc[t] = "poll_wait"
  /\ \E queue \in PollQueues(t, wq) :
       /\ wq' = poll_wait(t, wq, queue)
       /\ fx' = << <<"poll_wait", queue>> >>
  /\ pc' = [pc EXCEPT ![t] = "poll_read"]
  /\ req' = <<>>
  /\ UNCHANGED <<dev, irq_pc, tstate, sigpending, wret, last, ghost>>
  /\ stage' = StageAfter

\* lines 116-119: atomic_read, return mask
axi_fpga_poll_read(t) ==
  /\ pc[t] = "poll_read"
  /\ last' = [last EXCEPT ![t] = Ret("poll", PollMask(irq_happened), 119)]
  /\ pc' = [pc EXCEPT ![t] = "idle"]
  /\ req' = <<>>
  /\ fx' = <<>>
  /\ UNCHANGED <<dev, irq_pc, waitv, ghost>>
  /\ stage' = StageAfter

\* The owner of the poll table takes its entry off d->wait again
\* (poll_freewait when select or poll returns, epoll_ctl del).
poll_freewait(t) ==
  /\ pc[t] = "idle"
  /\ InPoll(t)
  /\ wq' = wq \ {PollEntry(t)}
  /\ req' = <<>>
  /\ fx' = <<>>
  /\ UNCHANGED <<dev, irq_pc, pc, tstate, sigpending, wret, last, ghost>>
  /\ stage' = StageAfter

(* ------------------------------ read ---------------------------------- *)

InRead(t) == pc[t] \in {"read_cond", "read_prep", "read_test", "read_sched", "read_clear"}

\* The thread is inside the loop of wait_event_interruptible.
InWait(t) == pc[t] \in {"read_prep", "read_test", "read_sched"}

\* line 128: the read of d->dev_open
axi_fpga_read_check(t) ==
  /\ pc[t] = "idle"
  /\ ~InPoll(t)
  /\ IF dev_open = 0
       THEN /\ last' = [last EXCEPT ![t] = Ret("read", -EIO, 129)]
            /\ pc' = pc
       ELSE /\ last' = [last EXCEPT ![t] = Ret("read", 0, 0)]
            /\ pc' = [pc EXCEPT ![t] = "read_cond"]
  /\ wret' = [wret EXCEPT ![t] = 0]
  /\ req' = <<"read", t>>
  /\ fx' = <<>>
  /\ UNCHANGED <<dev, irq_pc, wq, tstate, sigpending, ghost>>
  /\ stage' = StageAfter

\* line 137, wait_event_interruptible: __ret = 0; if (!(condition)) wait
axi_fpga_read_cond(t) ==
  /\ pc[t] = "read_cond"
  /\ pc' = [pc EXCEPT ![t] = IF irq_happened = 1 THEN "read_clear" ELSE "read_prep"]
  /\ req' = <<>>
  /\ fx' = <<>>
  /\ UNCHANGED <<dev, irq_pc, waitv, last, ghost>>
  /\ stage' = StageAfter

\* line 137, prepare_to_wait_event: with a signal pending it returns
\* -ERESTARTSYS and leaves the task off the queue; otherwise the task is
\* queued and set TASK_INTERRUPTIBLE.
axi_fpga_read_prep(t) ==
  /\ pc[t] = "read_prep"
  /\ IF sigpending[t]
       THEN /\ wret' = [wret EXCEPT ![t] = -ERESTARTSYS]
            /\ wq' = wq \ {WaitEntry(t)}
            /\ tstate' = tstate
       ELSE /\ wret' = [wret EXCEPT ![t] = 0]
            /\ wq' = wq \cup {WaitEntry(t)}
            /\ tstate' = [tstate EXCEPT ![t] = "INT"]
  /\ pc' = [pc EXCEPT ![t] = "read_test"]
  /\ req' = <<>>
  /\ fx' = <<>>
  /\ UNCHANGED <<dev, irq_pc, sigpending, last, ghost>>
  /\ stage' = StageAfter

\* line 137, the loop body: if (condition) break; if (__int) goto out;
\* schedule().  Leaving through break runs finish_wait.
axi_fpga_read_test(t) ==
  /\ pc[t] = "read_test"
  /\ IF irq_happened = 1
       THEN /\ wret' = [wret EXCEPT ![t] = 0]
            /\ wq' = wq \ {WaitEntry(t)}
            /\ tstate' = [tstate EXCEPT ![t] = "RUN"]
            /\ pc' = [pc EXCEPT ![t] = "read_clear"]
       ELSE IF wret[t] # 0
         THEN /\ pc' = [pc EXCEPT ![t] = "read_clear"]
              /\ UNCHANGED <<wret, wq, tstate>>
         ELSE /\ pc' = [pc EXCEPT ![t] = "read_sched"]
              /\ UNCHANGED <<wret, wq, tstate>>
  /\ req' = <<>>
  /\ fx' = <<>>
  /\ UNCHANGED <<dev, irq_pc, sigpending, last, ghost>>
  /\ stage' = StageAfter

\* line 137, schedule(): returns once the task is runnable again, at once
\* when a signal is pending.
axi_fpga_read_sched(t) ==
  /\ pc[t] = "read_sched"
  /\ tstate[t] = "RUN" \/ sigpending[t]
  /\ tstate' = [tstate EXCEPT ![t] = "RUN"]
  /\ pc' = [pc EXCEPT ![t] = "read_prep"]
  /\ req' = <<>>
  /\ fx' = <<>>
  /\ UNCHANGED <<dev, irq_pc, wq, sigpending, wret, last, ghost>>
  /\ stage' = StageAfter

\* lines 138-139 without the store to the flag
axi_fpga_read_keep(t) ==
  /\ pc[t] = "read_clear"
  /\ irq_happened' = irq_happened
  /\ last' = [last EXCEPT ![t] = Ret("read", 0, 139)]
  /\ pc' = [pc EXCEPT ![t] = "idle"]
  /\ sigpending' = [sigpending EXCEPT ![t] = FALSE]
  /\ batch' = IF wret[t] = 0 THEN trig ELSE batch
  /\ trig' = trig
  /\ late' = FALSE
  /\ req' = <<>>
  /\ fx' = <<>>
  /\ UNCHANGED <<dev_open, irq_held, irq_pc, wq, tstate, wret, opens>>
  /\ stage' = StageAfter

\* lines 138-139: atomic_set(&d->irq_happened, 0); return 0.  The value of
\* wait_event_interruptible is dropped.  A pending signal is delivered on
\* the way back to user mode.
axi_fpga_read_clear(t) ==
  /\ pc[t] = "read_clear"
  /\ irq_happened' = 0
  /\ last' = [last EXCEPT ![t] = Ret("read", 0, 139)]
  /\ pc' = [pc EXCEPT ![t] = "idle"]
  /\ sigpending' = [sigpending EXCEPT ![t] = FALSE]
  /\ batch' = IF wret[t] = 0 THEN trig ELSE batch
  /\ trig' = 0
  /\ late' = FALSE
  /\ req' = <<>>
  /\ fx' = <<>>
  /\ UNCHANGED <<dev_open, irq_held, irq_pc, wq, tstate, wret, opens>>
  /\ stage' = StageAfter

\* A signal is sent to a thread inside read: signal_wake_up makes a task
\* in TASK_INTERRUPTIBLE runnable (it stays on the wait queue).
Signal(t) ==
  /\ InRead(t)
  /\ ~sigpending[t]
  /\ sigpending' = [sigpending EXCEPT ![t] = TRUE]
  /\ tstate' = [tstate EXCEPT ![t] = "RUN"]
  /\ req' = <<>>
  /\ fx' = <<>>
  /\ UNCHANGED <<dev, irq_pc, wq, wret, pc, last, ghost>>
  /\ stage' = StageAfter

(* ------------------------------ ioctl --------------------------------- *)

\* get_user_pages(virt_addr, 1, 0, &page, NULL): one page pinned and stored
\* in page for a resident address; for any other address the result is 0
\* or -EFAULT and page is not written.
GupResults(va) == IF va = MappedVa THEN {1} ELSE {0, -EFAULT}

\* The value of the local page after get_user_pages: the pinned frame, or
\* whatever the uninitialised variable holds, a stale struct page pointer
\* or a value that is no struct page.
GupPages(va, res) == IF res = 1 THEN {UserPfn} ELSE GarbagePfns \cup WildPages

\* Whether dma_map_page faults on its page argument: never on a struct
\* page; on a value that is no struct page it either computes a bus address
\* from the pointer all the same or oopses, and the task is killed inside
\* the call.
DmaMapOops(page) == IF page \in WildPages THEN BOOLEAN ELSE {FALSE}

DmaDirSwapped(direction) == IF direction # 0 THEN "DMA_FROM_DEVICE" ELSE "DMA_TO_DEVICE"

\* if (buf_addr.direction) ... DMA_TO_DEVICE else ... DMA_FROM_DEVICE
DmaDir(direction) == IF direction # 0 THEN "DMA_TO_DEVICE" ELSE "DMA_FROM_DEVICE"

\* dma_map_page(dev, page, 0, size, dir) on a platform without an IOMMU:
\* the bus address of the frame.
dma_map_page(pfn) == pfn * PAGE_SIZE

\* lines 159-178, case AXI_FPGA_GET_PAGE
GetPageFx(va, size, direction, res, page) ==
  << <<"get_user_pages", va, res>>,
     <<"dma_map_page", page, size, DmaDir(direction)>>,
     <<"copy_to_user", dma_map_page(page)>> >>

GetPageRetInverted(res) == IF res = 0 THEN 0 ELSE -EINVAL

\* lines 167-168, 178: retval = 0; if (!res) retval = -EINVAL; return retval
GetPageRet(res) == IF res = 0 THEN -EINVAL ELSE 0

\* a default case that leaves the switch: return 0 at line 201
DefaultBreak == Ret("ioctl", 0, 201)

\* lines 198-199: default: return -ENOTTY
DefaultRet == Ret("ioctl", -ENOTTY, 199)

\* lines 142-202.  No field of d other than d->pdev is read.  The fields
\* of buf_addr a command does not use are not enumerated for it (0 in req).
\* A task that oopses in dma_map_page never returns from the call: it
\* stays at "oops" and takes no further step.
axi_fpga_ioctl(t) ==
  /\ pc[t] = "idle"
  /\ ~InPoll(t)
  /\ \E cmd \in Cmds :
       CASE cmd = "AXI_FPGA_GET_PAGE" ->
              \E va \in UserVas, size \in XferSizes, direction \in Directions :
              \E res \in GupResults(va) : \E page \in GupPages(va, res) :
              \E oops \in DmaMapOops(page) :
                /\ req' = <<"ioctl", cmd, va, 0, size, direction>>
                /\ IF oops
                     THEN /\ fx' = SubSeq(GetPageFx(va, size, direction, res, page), 1, 2)
                          /\ last' = [last EXCEPT ![t] = Ret("ioctl", 0, 0)]
                          /\ pc' = [pc EXCEPT ![t] = "oops"]
                     ELSE /\ fx' = GetPageFx(va, size, direction, res, page)
                          /\ last' = [last EXCEPT ![t] = Ret("ioctl", GetPageRet(res), 178)]
                          /\ pc' = pc
         [] cmd = "AXI_FPGA_GIVE_PAGE" ->
              \E phys \in PhysAddrs, size \in XferSizes, direction \in Directions :
                /\ req' = <<"ioctl", cmd, 0, phys, size, direction>>
                /\ fx' = << <<"dma_sync_single_for_device", phys, size, DmaDir(direction)>> >>
                /\ last' = [last EXCEPT ![t] = Ret("ioctl", 0, 201)]
                /\ pc' = pc
         [] cmd = "AXI_FPGA_TAKE_PAGE" ->
              \E phys \in PhysAddrs, size \in XferSizes, direction \in Directions :
                /\ req' = <<"ioctl", cmd, 0, phys, size, direction>>
                /\ fx' = << <<"dma_sync_single_for_cpu", phys, size, DmaDir(direction)>> >>
                /\ last' = [last EXCEPT ![t] = Ret("ioctl", 0, 201)]
                /\ pc' = pc
         [] OTHER ->
              /\ req' = <<"ioctl", cmd, 0, 0, 0, 0>>
              /\ fx' = <<>>
              /\ last' = [last EXCEPT ![t] = DefaultRet]
              /\ pc' = pc
  /\ UNCHANGED <<dev, irq_pc, waitv, ghost>>
  /\ stage' = StageAfter

(* ------------------------------- mmap --------------------------------- *)

ExpectedSizeLinear == dev_size + fpga_buffer_npages * PAGE_SIZE

\* line 226: d->dev_size + (1 << d->fpga_buffer_npages) * PAGE_SIZE
expected_size == dev_size + Pow2(fpga_buffer_npages) * PAGE_SIZE

\* Sizes vma->vm_end - vma->vm_start of the requests: the expected one and
\* one page to either side.
VmSizes == {expected_size - PAGE_SIZE, expected_size, expected_size + PAGE_SIZE}

BufferAddrRelative(vm_start) == vm_start + dev_size

\* line 241: addr = d->dev_size -- the address given to the second
\* remap_pfn_range
BufferAddr(vm_start) == dev_size

\* lines 233-250.  fail names the remap_pfn_range call that fails (0: none).
MmapFx(vm_start, fail) ==
  LET first  == <<"remap_pfn_range", vm_start, dev_physaddr \div PAGE_SIZE, dev_size>>
      second == <<"remap_pfn_range", BufferAddr(vm_start), fpga_buffer_pfn,
                  Pow2(fpga_buffer_npages) * PAGE_SIZE>>
  IN IF fail = 1 THEN <<>>
     ELSE IF fail = 2 THEN <<first>>
     ELSE <<first, second>>

\* lines 213-251.  fail is consulted only when both checks pass.
axi_fpga_mmap(t) ==
  /\ pc[t] = "idle"
  /\ ~InPoll(t)
  /\ \E vm_start \in VmStarts, vm_pgoff \in VmPgoffs, size \in VmSizes :
       /\ req' = <<"mmap", vm_start, vm_pgoff, size>>
       /\ IF dev_open = 0
            THEN /\ fx' = <<>>
                 /\ last' = [last EXCEPT ![t] = Ret("mmap", -EIO, 221)]
          ELSE IF vm_pgoff # 0
            THEN /\ fx' = <<>>
                 /\ last' = [last EXCEPT ![t] = Ret("mmap", -EINVAL, 224)]
          ELSE IF size # expected_size
            THEN /\ fx' = <<>>
                 /\ last' = [last EXCEPT ![t] = Ret("mmap", -EINVAL, 231)]
          ELSE \E fail \in 0..2 :
                 /\ fx' = MmapFx(vm_start, fail)
                 /\ last' = [last EXCEPT ![t] =
                      IF fail = 1 THEN Ret("mmap", -EIO, 239)
                      ELSE IF fail = 2 THEN Ret("mmap", -EIO, 246)
                      ELSE Ret("mmap", 0, 250)]
  /\ UNCHANGED <<dev, irq_pc, waitv, pc, ghost>>
  /\ stage' = StageAfter

\* The frame behind the user address va in the page tables written by the
\* remap_pfn_range calls of effects (0: none).  remap_pfn_range(vma, addr,
\* pfn, size) fills the entries of [addr, addr + PAGE_ALIGN(size)) whether
\* or not the range lies in the vma.
RECURSIVE PfnAt(_, _)
PfnAt(effects, va) ==
  IF effects = <<>> THEN 0
  ELSE LET e == Head(effects) IN
       IF /\ e[1] = "remap_pfn_range"
          /\ e[2] <= va
          /\ va < e[2] + PagesOf(e[4]) * PAGE_SIZE
         THEN e[3] + ((va - e[2]) \div PAGE_SIZE)
         ELSE PfnAt(Tail(effects), va)

(* --------------------------- specifications --------------------------- *)

\* The steps of the handlers that a thread t runs.
ThreadStep(t) ==
  \/ axi_fpga_open_check(t)
  \/ axi_fpga_open_set(t)
  \/ axi_fpga_open_irq(t)
  \/ axi_fpga_release_check(t)
  \/ axi_fpga_release_free(t)
  \/ axi_fpga_release_sync(t)
  \/ axi_fpga_release_clear(t)
  \/ axi_fpga_poll_check(t)
  \/ axi_fpga_poll_wait(t)
  \/ axi_fpga_poll_read(t)
  \/ poll_freewait(t)
  \/ axi_fpga_read_check(t)
  \/ axi_fpga_read_cond(t)
  \/ axi_fpga_read_prep(t)
  \/ axi_fpga_read_test(t)
  \/ axi_fpga_read_sched(t)
  \/ axi_fpga_read_clear(t)
  \/ Signal(t)

DataStep(t) ==
  \/ axi_fpga_ioctl(t)
  \/ axi_fpga_mmap(t)

\* Any thread calls any handler at any time; the interrupt fires whenever
\* the handler is registered.
Next ==
  \/ axi_fpga_irq_handler_set
  \/ axi_fpga_irq_handler_wake
  \/ \E t \in Threads : ThreadStep(t)
  \/ \E t \in DataCallers : DataStep(t)

Spec == Init /\ [][Next]_vars

\* The supported use: one consumer thread, racing only with the interrupt
\* handler and with signals.
NextSingle ==
  \/ axi_fpga_irq_handler_set
  \/ axi_fpga_irq_handler_wake
  \/ ThreadStep(Consumer)
  \/ DataStep(Consumer)

SpecSingle == Init /\ [][NextSingle]_vars

\* The steps of a read that is under way.
ReadStep(t) ==
  \/ axi_fpga_read_cond(t)
  \/ axi_fpga_read_prep(t)
  \/ axi_fpga_read_test(t)
  \/ axi_fpga_read_sched(t)
  \/ axi_fpga_read_clear(t)

\* A thread inside read keeps running when it is runnable, and a handler
\* that was entered runs to its end.  Nothing obliges the hardware to
\* interrupt, a signal to be sent or the consumer to make a further call.
FairSingle ==
  /\ SpecSingle
  /\ WF_vars(ReadStep(Consumer))
  /\ WF_vars(axi_fpga_irq_handler_wake)

(* ------------------------------ claims -------------------------------- *)

\* The step is thread t entering handler o (open, release, poll or read).
Called(t, o) ==
  /\ pc[t] = "idle"
  /\ req' = <<o, t>>

\* The step is a whole ioctl or mmap call (o) by thread t.
DataCalled(t, o) ==
  /\ t \in DataCallers
  /\ pc[t] = "idle"
  /\ req' # <<>>
  /\ req'[1] = o

\* The step is an ioctl call by thread t with one of the three
\* ownership-transfer commands.
TransferCalled(t) ==
  /\ DataCalled(t, "ioctl")
  /\ req'[2] \in {"AXI_FPGA_GET_PAGE", "AXI_FPGA_GIVE_PAGE", "AXI_FPGA_TAKE_PAGE"}

\* C1: an open() that fails because the interrupt line cannot be acquired
\* (no session holds it) leaves the device Closed: dev_open is 0 after it.
C1_FailedOpenLeavesClosed ==
  [][\A t \in Threads :
       (/\ pc[t] = "open_irq"
        /\ pc'[t] = "idle"
        /\ last'[t] = Ret("open", -EBUSY, 100)
        /\ ~irq_held)
       => dev_open' = 0]_vars

\* C2: open() entered while dev_open is set returns -EBUSY at once and
\* changes neither dev_open, nor irq_happened, nor the registration of the
\* interrupt handler, nor the wait queue, and makes no platform call.
C2_OpenWhileOpen ==
  [][\A t \in Threads :
       (Called(t, "open") /\ dev_open = 1)
       => /\ last'[t] = Ret("open", -EBUSY, 95)
          /\ pc'[t] = "idle"
          /\ fx' = <<>>
          /\ UNCHANGED <<dev_open, irq_happened, irq_held, wq>>]_vars

\* C2 witness: a session is open and holds the line, and a second open()
\* has just been refused.
C2_Witness ==
  \E t \in Threads, u \in Threads :
    /\ t # u
    /\ pc[t] = "idle" /\ last[t] = Ret("open", -EBUSY, 95)
    /\ pc[u] = "idle" /\ last[u] = Ret("open", 0, 102)
    /\ dev_open = 1
    /\ irq_held

\* C3: release() entered while dev_open is 0 returns -EIO and changes
\* nothing; entered while dev_open is set it goes on to free_irq, which
\* leaves the handler unregistered and, when it removed one, returns once
\* no instance of it runs, and then stores dev_open = 0 and returns 0
\* without touching the line again.
C3_Close ==
  [][\A t \in Threads :
       /\ (Called(t, "release") /\ dev_open = 0)
          => /\ last'[t] = Ret("release", -EIO, 266)
             /\ pc'[t] = "idle"
             /\ fx' = <<>>
             /\ UNCHANGED <<dev_open, irq_happened, irq_held, wq>>
       /\ (Called(t, "release") /\ dev_open # 0)
          => pc'[t] = "rel_free"
       /\ (pc[t] = "rel_free" /\ pc'[t] # "rel_free")
          => /\ ~irq_held'
             /\ pc'[t] = (IF irq_held THEN "rel_sync" ELSE "rel_clear")
       /\ (pc[t] = "rel_sync" /\ pc'[t] # "rel_sync")
          => /\ irq_pc = "idle"
             /\ irq_held' = irq_held
             /\ pc'[t] = "rel_clear"
       /\ (pc[t] = "rel_clear" /\ pc'[t] # "rel_clear")
          => /\ dev_open' = 0
             /\ irq_held' = irq_held
             /\ pc'[t] = "idle"
             /\ last'[t] = Ret("release", 0, 272)]_vars

\* C3 witness: one thread has closed the open session (the line is free and
\* the device Closed) and a close by the other has then been refused.
C3_Witness ==
  \E t \in Threads, u \in Threads :
    /\ t # u
    /\ pc[t] = "idle" /\ last[t] = Ret("release", 0, 272)
    /\ pc[u] = "idle" /\ last[u] = Ret("release", -EIO, 266)
    /\ dev_open = 0
    /\ ~irq_held

\* C4: a read, poll, mmap or ownership-transfer ioctl (GET_PAGE, GIVE_PAGE,
\* TAKE_PAGE) entered while dev_open is 0 returns -EIO,
\* makes no platform call (no pin, DMA map or cache sync) and changes no
\* field of the device.
C4_DataPathWhileClosed ==
  [][/\ \A t \in Threads :
          ((Called(t, "read") \/ Called(t, "poll")) /\ dev_open = 0)
          => /\ last'[t].ret = -EIO
             /\ pc'[t] = "idle"
             /\ fx' = <<>>
             /\ UNCHANGED <<dev_open, irq_happened, irq_held>>
     /\ \A t \in DataCallers :
          ((DataCalled(t, "mmap") \/ TransferCalled(t)) /\ dev_open = 0)
          => /\ last'[t].ret = -EIO
             /\ fx' = <<>>
             /\ UNCHANGED <<dev_open, irq_happened, irq_held>>]_vars

\* C5: in an open session, a read whose wait was ended by a signal with no
\* event latched (the wait yielded -ERESTARTSYS) does not return the success
\* value 0.
C5_CancelDistinguishable ==
  \A t \in Threads :
    (/\ dev_open = 1
     /\ irq_held
     /\ trig = 0
     /\ pc[t] = "idle"
     /\ last[t].op = "read"
     /\ last[t].site = 139
     /\ wret[t] = -ERESTARTSYS)
    => last[t].ret # 0

\* C6: with one consumer racing the interrupt handler: a read that finds the
\* flag set when it starts to wait goes straight to its return without
\* queueing or sleeping; a read leaves the wait with the wait's success
\* value only when the flag is set; and once the flag is set while a read is
\* waiting, that read returns 0 with the wait's success value.
C6_NoLostWakeup ==
  /\ [][/\ (pc[Consumer] = "read_cond" /\ pc'[Consumer] # "read_cond"
            /\ irq_happened = 1)
           => /\ pc'[Consumer] = "read_clear"
              /\ wret'[Consumer] = 0
              /\ WaitEntry(Consumer) \notin wq'
        /\ (InWait(Consumer) /\ pc'[Consumer] = "read_clear"
            /\ wret'[Consumer] = 0)
           => irq_happened = 1]_vars
  /\ (InWait(Consumer) /\ irq_happened = 1)
       ~> (/\ pc[Consumer] = "idle"
           /\ last[Consumer] = Ret("read", 0, 139)
           /\ wret[Consumer] = 0)

\* C6 witness: the consumer went to sleep with the flag clear and the
\* handler has just set the flag; its wake-up is still to come.
C6_Witness ==
  /\ pc[Consumer] = "read_sched"
  /\ tstate[Consumer] = "INT"
  /\ WaitEntry(Consumer) \in wq
  /\ ~sigpending[Consumer]
  /\ irq_happened = 1
  /\ irq_pc = "wake"

\* C7: when release() completes while a reader sleeps in the wait, that
\* reader has been made runnable.
C7_CloseWakesWaiter ==
  [][\A t \in Threads, r \in Threads :
       (/\ pc[t] = "rel_clear"
        /\ pc'[t] = "idle"
        /\ pc[r] = "read_sched"
        /\ tstate[r] = "INT")
       => tstate'[r] = "RUN"]_vars

\* C8: with one consumer: the flag is set exactly when at least one trigger
\* came since it was last cleared; a read gets past the wait with the wait's
\* success value only if such a trigger exists; a returning read clears the
\* flag however many triggers set it; and a read that returns after finding
\* the flag set is the first to do so since the last trigger and consumes
\* at least one trigger.
C8_Coalescing ==
  /\ []((irq_happened = 1) <=> (trig >= 1))
  /\ [][/\ (pc[Consumer] \in {"read_cond", "read_test"}
            /\ pc'[Consumer] = "read_clear" /\ wret'[Consumer] = 0)
           => trig >= 1
        /\ (pc[Consumer] = "read_clear" /\ pc'[Consumer] = "idle")
           => (irq_happened' = 0 /\ trig' = 0)
        /\ (pc[Consumer] = "read_clear" /\ pc'[Consumer] = "idle"
            /\ wret[Consumer] = 0)
           => (batch = 0 /\ batch' >= 1)]_vars

\* C8 witness: one read returned for two triggers, the flag is clear again,
\* and the next read sleeps in the wait.
C8_Witness ==
  /\ batch = 2
  /\ last[Consumer] = Ret("read", 0, 0)
  /\ trig = 0
  /\ irq_happened = 0
  /\ pc[Consumer] = "read_sched"
  /\ tstate[Consumer] = "INT"
  /\ wret[Consumer] = 0

\* C9: the poll of an open device returns POLLIN | POLLRDNORM exactly when
\* irq_happened is 1 and 0 otherwise, and no step of poll changes
\* irq_happened.
C9_PollReportsFlag ==
  [][\A t \in Threads :
       /\ (pc[t] = "poll_read" /\ pc'[t] = "idle")
          => /\ last'[t].op = "poll"
             /\ last'[t].ret = (IF irq_happened = 1 THEN POLLIN + POLLRDNORM ELSE 0)
             /\ irq_happened' = irq_happened
       /\ (pc[t] = "poll_wait" /\ pc'[t] = "poll_read")
          => irq_happened' = irq_happened
       /\ Called(t, "poll") => irq_happened' = irq_happened]_vars

\* C9 witness: both threads polled after a trigger, with no read in
\* between: both were told ready and the flag is still set.
C9_Witness ==
  /\ \A t \in Threads :
       pc[t] = "idle" /\ last[t] = Ret("poll", POLLIN + POLLRDNORM, 119)
  /\ irq_happened = 1
  /\ trig >= 1

\* C10: after a successful mmap, in an open session, of a vma starting at s,
\* every page offset of [0, dev_size) from s is backed by the control window
\* and every page offset of the buffer from s + dev_size by the buffer's
\* frames, in order.
C10_MappingLayout ==
  (/\ dev_open = 1
   /\ irq_held
   /\ req # <<>>
   /\ req[1] = "mmap"
   /\ last[Consumer] = Ret("mmap", 0, 250))
  => LET s == req[2] IN
       /\ \A k \in 0 .. (PagesOf(dev_size) - 1) :
            PfnAt(fx, s + k * PAGE_SIZE) = (dev_physaddr \div PAGE_SIZE) + k
       /\ \A k \in 0 .. (Pow2(fpga_buffer_npages) - 1) :
            PfnAt(fx, s + dev_size + k * PAGE_SIZE) = fpga_buffer_pfn + k

\* C11: an mmap() call in an open session returns 0 only if vm_pgoff is 0
\* and the length of the vma is exactly dev_size plus 2^fpga_buffer_npages
\* pages; with a non-zero vm_pgoff or any other length (one page short or
\* one page long included) it returns -EINVAL, calls remap_pfn_range not
\* at all, and leaves dev_open, irq_happened and the interrupt line alone.
C11_MmapGeometry ==
  [][\A t \in DataCallers :
       (DataCalled(t, "mmap") /\ dev_open = 1)
       => /\ (req'[3] # 0
              \/ req'[4] # dev_size + Pow2(fpga_buffer_npages) * PAGE_SIZE)
             => /\ last'[t].op = "mmap"
                /\ last'[t].ret = -EINVAL
                /\ fx' = <<>>
                /\ UNCHANGED <<dev_open, irq_happened, irq_held>>
          /\ last'[t].ret = 0
             => /\ req'[3] = 0
                /\ req'[4] = dev_size + Pow2(fpga_buffer_npages) * PAGE_SIZE]_vars

\* C11 witness: in an open session that holds the line, an mmap() with
\* offset 0 whose length is one page more than the expected one has just
\* been refused with -EINVAL and nothing has been mapped.
C11_Witness ==
  /\ dev_open = 1
  /\ irq_held
  /\ req # <<>>
  /\ req[1] = "mmap"
  /\ req[3] = 0
  /\ req[4] = dev_size + Pow2(fpga_buffer_npages) * PAGE_SIZE + PAGE_SIZE
  /\ last[Consumer] = Ret("mmap", -EINVAL, 231)
  /\ fx = <<>>

\* C12: an AXI_FPGA_GET_PAGE call whose get_user_pages pins no page (its
\* result is 0 or a negative error code) returns a negative error code,
\* calls dma_map_page on no page and copies no bus address to the caller.
C12_FailedPinNoEffect ==
  [][\A t \in DataCallers :
       (/\ DataCalled(t, "ioctl")
        /\ req'[2] = "AXI_FPGA_GET_PAGE"
        /\ fx'[1][1] = "get_user_pages"
        /\ fx'[1][3] < 1)
       => /\ last'[t].op = "ioctl"
          /\ last'[t].ret < 0
          /\ \A i \in DOMAIN fx' :
               fx'[i][1] \notin {"dma_map_page", "copy_to_user"}]_vars

\* C13: with one consumer, open/close cycles repeat without end: every
\* open() entered with dev_open = 0 sets dev_open and, when the interrupt
\* line can be had, returns 0 holding the line; every release() entered
\* after it frees the line, stores dev_open = 0 and returns 0, which is
\* the session state of the initial state (dev_open = 0, line not held),
\* from which the next open() succeeds in the same way.
C13_OpenCloseCycles ==
  [][/\ (Called(Consumer, "open") /\ dev_open = 0)
        => /\ ~irq_held
           /\ pc'[Consumer] = "open_set"
     /\ (pc[Consumer] = "open_set" /\ pc'[Consumer] # "open_set")
        => /\ dev_open' = 1
           /\ pc'[Consumer] = "open_irq"
     /\ (/\ pc[Consumer] = "open_irq"
         /\ pc'[Consumer] = "idle"
         /\ fx' = << <<"request_irq", TRUE>> >>)
        => /\ last'[Consumer] = Ret("open", 0, 102)
           /\ dev_open' = 1
           /\ irq_held'
     /\ (Called(Consumer, "release") /\ dev_open = 1)
        => pc'[Consumer] = "rel_free"
     /\ (pc[Consumer] = "rel_free" /\ pc'[Consumer] # "rel_free")
        => /\ ~irq_held'
           /\ pc'[Consumer] = (IF irq_held THEN "rel_sync" ELSE "rel_clear")
     /\ (pc[Consumer] = "rel_sync" /\ pc'[Consumer] # "rel_sync")
        => /\ ~irq_held'
           /\ pc'[Consumer] = "rel_clear"
     /\ (pc[Consumer] = "rel_clear" /\ pc'[Consumer] # "rel_clear")
        => /\ last'[Consumer] = Ret("release", 0, 272)
           /\ pc'[Consumer] = "idle"
           /\ dev_open' = 0
           /\ ~irq_held']_vars

\* C13 witness: an open() has just succeeded with the line held, although
\* a read of an earlier session has consumed a trigger and no trigger has
\* come since: the device was opened, closed and opened again.
C13_Witness ==
  /\ pc[Consumer] = "idle"
  /\ last[Consumer] = Ret("open", 0, 102)
  /\ fx = << <<"request_irq", TRUE>> >>
  /\ dev_open = 1
  /\ irq_held
  /\ irq_happened = 0
  /\ batch >= 1

\* C15: an ioctl() whose command is none of AXI_FPGA_GET_PAGE,
\* AXI_FPGA_GIVE_PAGE, AXI_FPGA_TAKE_PAGE returns -ENOTTY and makes no
\* platform call (no get_user_pages, no dma_map_page, no dma_sync), and
\* leaves dev_open, irq_happened and the interrupt line as they were.
C15_UnknownCommand ==
  [][\A t \in DataCallers :
       (/\ DataCalled(t, "ioctl")
        /\ req'[2] \notin {"AXI_FPGA_GET_PAGE", "AXI_FPGA_GIVE_PAGE",
                           "AXI_FPGA_TAKE_PAGE"})
       => /\ last'[t].op = "ioctl"
          /\ last'[t].ret = -ENOTTY
          /\ fx' = <<>>
          /\ UNCHANGED <<dev_open, irq_happened, irq_held>>]_vars

\* C15 witness: in an open session with an event latched, an ioctl() with
\* an unknown command has just returned -ENOTTY.
C15_Witness ==
  /\ dev_open = 1
  /\ irq_held
  /\ irq_happened = 1
  /\ req # <<>>
  /\ req[1] = "ioctl"
  /\ req[2] = "OTHER"
  /\ last[Consumer] = Ret("ioctl", -ENOTTY, 199)
  /\ fx = <<>>

\* C16: in every reachable state, the states between the steps of open()
\* and release() and the state after a failed open() included, the
\* interrupt handler is registered only if dev_open is 1; hence the
\* handler sets irq_happened only while dev_open is 1.
C16_LineHeldOnlyWhileOpen ==
  /\ irq_held => dev_open = 1
  /\ irq_pc = "wake" => dev_open = 1

\* C17: under every interleaving of the steps of concurrent open() calls
\* (and of everything else), at most one open() has returned 0 since the
\* interrupt line was last freed by a release(): of two open() calls
\* racing on a closed device at most one succeeds, and there are never two
\* successfully opened sessions without a close between them.
C17_AtMostOneSession ==
  /\ opens <= 1
  /\ opens = 1 => irq_held

\* C17 witness: two open() calls raced past the test of dev_open; one has
\* returned 0 and holds the line, the other has just been refused by
\* request_irq at line 100 although the line could be had.
C17_Witness ==
  \E t \in Threads, u \in Threads :
    /\ t # u
    /\ pc[t] = "idle" /\ last[t] = Ret("open", 0, 102)
    /\ pc[u] = "idle" /\ last[u] = Ret("open", -EBUSY, 100)
    /\ fx = << <<"request_irq", TRUE>> >>
    /\ opens = 1
    /\ dev_open = 1
    /\ irq_held

\* C18: the test of irq_happened that ends the wait of read() and the
\* store that clears it act as one atomic step with respect to the
\* interrupt handler: when the handler sets the flag after the reader has
\* found it set, the reader's clear does not erase that event and the flag
\* is still 1 when the read returns.
C18_ObserveAndClearAtomic ==
  [][\A t \in Threads :
       (/\ pc[t] = "read_clear"
        /\ pc'[t] = "idle"
        /\ wret[t] = 0
        /\ late)
       => irq_happened' = 1]_vars

\* C19: irq_happened goes from 1 to 0 only in the step of a read() that
\* returns (line 138); no step of open(), release() or poll() and no
\* ioctl() or mmap() call changes it to 0.  An event latched in one
\* session therefore outlives release() and the next open(), and a read()
\* entered with the flag set skips the wait and returns 0 with no new
\* trigger.
C19_OnlyReadClears ==
  [][/\ (irq_happened = 1 /\ irq_happened' = 0)
        => \E t \in Threads :
             /\ pc[t] = "read_clear"
             /\ pc'[t] = "idle"
             /\ last'[t] = Ret("read", 0, 139)
     /\ \A t \in Threads :
          /\ (\/ Called(t, "open") \/ Called(t, "release") \/ Called(t, "poll")
              \/ DataCalled(t, "ioctl") \/ DataCalled(t, "mmap")
              \/ pc[t] \in {"open_set", "open_irq", "rel_free", "rel_sync",
                            "rel_clear", "poll_wait", "poll_read"}
                 /\ pc'[t] # pc[t])
             => irq_happened' = irq_happened
          /\ (pc[t] = "read_cond" /\ pc'[t] # "read_cond" /\ irq_happened = 1)
             => /\ pc'[t] = "read_clear"
                /\ wret'[t] = 0
                /\ tstate'[t] = "RUN"]_vars

\* C19 witness: an open() has just succeeded and irq_happened is already
\* 1: the handler can run only while the line is held, so the event was
\* latched in an earlier session and has outlived its release().
C19_Witness ==
  /\ pc[Consumer] = "idle"
  /\ last[Consumer] = Ret("open", 0, 102)
  /\ fx = << <<"request_irq", TRUE>> >>
  /\ irq_happened = 1
  /\ trig >= 1
  /\ irq_pc = "idle"
  /\ dev_open = 1
  /\ irq_held

\* C20: for every ioctl() with one of the three ownership-transfer
\* commands the DMA direction handed to the platform is DMA_TO_DEVICE
\* exactly when buf_addr.direction is non-zero and DMA_FROM_DEVICE when it
\* is 0.  AXI_FPGA_GET_PAGE calls dma_map_page once, on the page that
\* get_user_pages pinned when it pinned one, with the caller's size;
\* AXI_FPGA_GIVE_PAGE makes the one call dma_sync_single_for_device and
\* AXI_FPGA_TAKE_PAGE the one call dma_sync_single_for_cpu, both on the
\* caller's phys_addr and size.  None of them changes dev_open,
\* irq_happened or the interrupt line.
C20_TransferDirections ==
  [][\A t \in DataCallers :
       TransferCalled(t)
       => /\ UNCHANGED <<dev_open, irq_happened, irq_held>>
          /\ \A i \in DOMAIN fx' :
               fx'[i][1] \in {"dma_map_page", "dma_sync_single_for_device",
                              "dma_sync_single_for_cpu"}
               => /\ req'[6] # 0 => fx'[i][4] = "DMA_TO_DEVICE"
                  /\ req'[6] = 0 => fx'[i][4] = "DMA_FROM_DEVICE"
          /\ req'[2] = "AXI_FPGA_GET_PAGE"
             => /\ Len(fx') \in {2, 3}
                /\ fx'[2][1] = "dma_map_page"
                /\ fx'[2][3] = req'[5]
                /\ fx'[1] = <<"get_user_pages", req'[3], 1>>
                   => /\ fx'[2][2] = UserPfn
                      /\ Len(fx') = 3
                      /\ pc'[t] = "idle"
                /\ \A i \in DOMAIN fx' :
                     fx'[i][1] \notin {"dma_sync_single_for_device",
                                       "dma_sync_single_for_cpu"}
          /\ req'[2] = "AXI_FPGA_GIVE_PAGE"
             => fx' = << <<"dma_sync_single_for_device", req'[4], req'[5],
                           IF req'[6] # 0 THEN "DMA_TO_DEVICE"
                                          ELSE "DMA_FROM_DEVICE">> >>
          /\ req'[2] = "AXI_FPGA_TAKE_PAGE"
             => fx' = << <<"dma_sync_single_for_cpu", req'[4], req'[5],
                           IF req'[6] # 0 THEN "DMA_TO_DEVICE"
                                          ELSE "DMA_FROM_DEVICE">> >>]_vars

\* C20 witness: in an open session with an event latched, GET_PAGE with
\* direction 2 on a resident address has just mapped the pinned page with
\* DMA_TO_DEVICE and returned 0.
C20_Witness ==
  /\ dev_open = 1
  /\ irq_held
  /\ irq_happened = 1
  /\ req = <<"ioctl", "AXI_FPGA_GET_PAGE", MappedVa, 0, PAGE_SIZE, 2>>
  /\ fx = << <<"get_user_pages", MappedVa, 1>>,
             <<"dma_map_page", UserPfn, PAGE_SIZE, "DMA_TO_DEVICE">>,
             <<"copy_to_user", UserPfn * PAGE_SIZE>> >>
  /\ last[Consumer] = Ret("ioctl", 0, 178)

\* C14: the session scenario runs as the specification tells it, with
\* dev_size = 4096 and fpga_buffer_npages = 2: as long as the consumer
\* issues its calls in the order of ScenarioStep, open() gets past the
\* test of dev_open and returns 0 holding the line; mmap() of
\* dev_size + 4 pages returns 0; AXI_FPGA_GET_PAGE with a non-zero
\* direction on a resident address returns 0 and copies the bus address
\* of the pinned page to the caller; after one interrupt the read() does
\* not sleep and returns 0, having consumed that one trigger and cleared
\* the flag; release() returns 0 and leaves dev_open = 0 with the line
\* free; and the read() after it returns -EIO.
C14_SessionScenario ==
  /\ stage = 1 => pc[Consumer] = "open_set"
  /\ stage = 2 => pc[Consumer] = "open_irq" /\ dev_open = 1
  /\ stage = 3 => /\ last[Consumer] = Ret("open", 0, 102)
                  /\ dev_open = 1
                  /\ irq_held
  /\ stage = 4 => /\ last[Consumer] = Ret("mmap", 0, 250)
                  /\ Len(fx) = 2
  /\ stage = 5 => /\ last[Consumer] = Ret("ioctl", 0, 178)
                  /\ fx[2] = <<"dma_map_page", UserPfn, PAGE_SIZE, "DMA_TO_DEVICE">>
                  /\ fx[3] = <<"copy_to_user", UserPfn * PAGE_SIZE>>
  /\ stage \in {6, 7} => irq_happened = 1 /\ trig = 1
  /\ stage = 8 => /\ pc[Consumer] \in {"read_cond", "read_clear"}
                  /\ tstate[Consumer] = "RUN"
  /\ stage = 9 => /\ pc[Consumer] = "idle"
                  /\ last[Consumer] = Ret("read", 0, 139)
                  /\ irq_happened = 0
                  /\ batch = 1
  /\ stage = 10 => pc[Consumer] = "rel_free"
  /\ stage = 11 => pc[Consumer] = "rel_sync" /\ ~irq_held
  /\ stage = 12 => pc[Consumer] = "rel_clear" /\ ~irq_held
  /\ stage = 13 => /\ pc[Consumer] = "idle"
                   /\ last[Consumer] = Ret("release", 0, 272)
                   /\ dev_open = 0
                   /\ ~irq_held
  /\ stage = 14 => /\ pc[Consumer] = "idle"
                   /\ last[Consumer] = Ret("read", -EIO, 129)
                   /\ dev_open = 0
                   /\ irq_happened = 0

\* C14 witness: the whole scenario has been run, down to the read() after
\* release() that has just returned -EIO.
C14_Witness ==
  /\ stage = 14
  /\ req = <<"read", Consumer>>
  /\ last[Consumer] = Ret("read", -EIO, 129)

====
